---- MODULE Spec2Model ----
(***************************************************************************)
(* Model of cribl_explorer.py: the transport client (_make_request), the   *)
(* six resource extractors, the aggregation fetch_all_data and the         *)
(* session loop of main / run_explorer that holds and refreshes the        *)
(* snapshot.                                                               *)
(***************************************************************************)
EXTENDS Integers, Sequences, FiniteSets, TLC

(***************************************************************************)
(* Bounds of the model.                                                    *)
(***************************************************************************)
\* fetch cycles (calls of fetch_all_data) in one run
MaxCycles == 2
\* transport faults the network injects in one run
MaxFaults == 2

(***************************************************************************)
(* Decoded JSON values, as response.json() returns them.  Every value is a *)
(* tagged record; the payload field is named after the tag.                *)
(***************************************************************************)
Null == [t |-> "null"]
Str(s) == [t |-> "str", s |-> s]
Num(n) == [t |-> "num", n |-> n]
Bool(b) == [t |-> "bool", b |-> b]
Arr(a) == [t |-> "arr", a |-> a]
Obj(o) == [t |-> "obj", o |-> o]
\* the dict with no keys
NoFields == [k \in {} |-> Null]

IsObj(j) == j.t = "obj"

\* dict.get(k, d); only called on a dict
PyGet(j, k, d) == IF k \in DOMAIN j.o THEN j.o[k] ELSE d

\* Python truth value of a decoded JSON value
Truthy(j) ==
    CASE j.t = "null" -> FALSE
      [] j.t = "bool" -> j.b
      [] j.t = "num" -> j.n # 0
      [] j.t = "str" -> j.s # ""
      [] j.t = "arr" -> Len(j.a) > 0
      [] j.t = "obj" -> DOMAIN j.o # {}

\* whether `for x in j` raises TypeError (None, numbers and booleans)
NotIterable(j) == j.t \in {"null", "bool", "num"}

\* the elements `for x in j` yields: a list's elements, a dict's keys, a
\* string's characters (each a str; a non-empty string is represented by
\* one str element, an element that is not a dict either way)
Elements(j) ==
    CASE j.t = "arr" -> j.a
      [] j.t = "obj" -> IF DOMAIN j.o = {} THEN <<>> ELSE <<Str("key")>>
      [] j.t = "str" -> IF j.s = "" THEN <<>> ELSE <<Str(j.s)>>
      [] OTHER -> <<>>

(***************************************************************************)
(* Text.  A message is a sequence of string pieces; an f-string            *)
(* concatenates them, formatting a number in decimal.                      *)
(***************************************************************************)
Digits == <<"0", "1", "2", "3", "4", "5", "6", "7", "8", "9">>

RECURSIVE DecStr(_)
DecStr(n) ==
    IF n < 10 THEN <<Digits[n + 1]>>
    ELSE DecStr(n \div 10) \o <<Digits[(n % 10) + 1]>>

REQUEST_TIMEOUT == 30

ENDPOINTS ==
    [groups |-> <<"/api/v1/master/groups">>,
     workers |-> <<"/api/v1/master/workers">>,
     inputs |-> <<"/api/v1/m/", "{group_id}", "/system/inputs">>,
     outputs |-> <<"/api/v1/m/", "{group_id}", "/system/outputs">>,
     pipelines |-> <<"/api/v1/m/", "{group_id}", "/system/pipelines">>,
     routes |-> <<"/api/v1/m/", "{group_id}", "/routes">>]

\* str(x) of a decoded value, as pieces of text (the repr of a list or a
\* dict is not spelled out)
PyStr(j) ==
    CASE j.t = "str" -> <<j.s>>
      [] j.t = "null" -> <<"None">>
      [] j.t = "bool" -> IF j.b THEN <<"True">> ELSE <<"False">>
      [] j.t = "num" -> DecStr(j.n)
      [] OTHER -> <<"<repr>">>

\* template.format(group_id=gid): literal replacement of the placeholder
RECURSIVE Format(_, _)
Format(template, gid) ==
    IF template = <<>> THEN <<>>
    ELSE (IF Head(template) = "{group_id}" THEN gid ELSE <<Head(template)>>)
         \o Format(Tail(template), gid)

(***************************************************************************)
(* Transport client.  A response is what requests.get did: `exc` is the    *)
(* set of exception classes the raised exception is an instance of (empty  *)
(* when a response came back), `text` its str(); otherwise `status_code`,  *)
(* and whether the body decodes as JSON (`value`) or json() raises         *)
(* ValueError (`text`).                                                    *)
(***************************************************************************)
Msg(m) == [t |-> "msg", m |-> m]

HttpResponse(code, decodable, value, text) ==
    [exc |-> {}, text |-> text, status_code |-> code,
     decodable |-> decodable, value |-> value]

RaisedResponse(classes, text) ==
    [exc |-> classes, text |-> text, status_code |-> 0,
     decodable |-> FALSE, value |-> Null]

\* a (success, data) tuple returned, or an exception leaving the function
Returned(success, data) == [raised |-> FALSE, success |-> success, data |-> data]
Escaped(text) == [raised |-> TRUE, success |-> FALSE, data |-> Msg(<<text>>)]

\* the except clauses of _make_request, in their order
MakeRequestExcept(response) ==
    IF "ConnectionError" \in response.exc
    THEN Returned(FALSE,
             Msg(<<"Connection failed. Check your URL and network connection.">>))
    ELSE IF "Timeout" \in response.exc
    THEN Returned(FALSE,
             Msg(<<"Request timed out after ">> \o DecStr(REQUEST_TIMEOUT)
                 \o <<" seconds.">>))
    ELSE IF "RequestException" \in response.exc
    THEN Returned(FALSE, Msg(<<"Request error: ", response.text>>))
    ELSE Escaped(response.text)

\* faulty variant: 500 itself is not taken for a server error
IsServerErrorAbove(code) == code > 500

\* response.status_code >= 500
IsServerError(code) == code >= 500

\* the status checks of _make_request, in their order, then json()
MakeRequestStatus(endpoint, response) ==
    IF response.status_code = 401
    THEN Returned(FALSE,
             Msg(<<"Authentication failed. Please check your Bearer token.">>))
    ELSE IF response.status_code = 403
    THEN Returned(FALSE,
             Msg(<<"Access forbidden. Your token may lack required permissions.">>))
    ELSE IF response.status_code = 404
    THEN Returned(FALSE,
             Msg(<<"Endpoint not found: ">> \o endpoint
                 \o <<". Check your base URL.">>))
    ELSE IF IsServerError(response.status_code)
    THEN Returned(FALSE,
             Msg(<<"Server error (">> \o DecStr(response.status_code)
                 \o <<"). Try again later.">>))
    ELSE IF response.status_code # 200
    THEN Returned(FALSE,
             Msg(<<"Unexpected status code: ">> \o DecStr(response.status_code)))
    ELSE IF response.decodable
    THEN Returned(TRUE, response.value)
    ELSE Returned(FALSE, Msg(<<"Invalid JSON response: ", response.text>>))

\* CriblAPIClient._make_request(endpoint) given what requests.get does
MakeRequest(endpoint, response) ==
    IF response.exc = {}
    THEN MakeRequestStatus(endpoint, response)
    ELSE MakeRequestExcept(response)

(***************************************************************************)
(* Extractors.  Each returns [raised, v]: the list of records, or raised   *)
(* when a .get is applied to a value that is not a dict or a for loop to a *)
(* value that is not iterable.                                             *)
(***************************************************************************)
Raise == [raised |-> TRUE, v |-> <<>>]
Value(v) == [raised |-> FALSE, v |-> v]

\* faulty variant: data['items'], a KeyError when the field is absent
ItemsRequired(data) ==
    IF ~IsObj(data) \/ "items" \notin DOMAIN data.o THEN Raise
    ELSE IF NotIterable(data.o.items) THEN Raise ELSE Value(Elements(data.o.items))

\* items = data.get('items', []), as the for loop sees it
Items(data) ==
    IF ~IsObj(data) THEN Raise
    ELSE LET items == PyGet(data, "items", Arr(<<>>))
         IN IF NotIterable(items) THEN Raise ELSE Value(Elements(items))

NotObj(j) == ~IsObj(j)

\* faulty variant: the id is read from the name field
GroupRecordIdFromName(group) ==
    [id |-> PyGet(group, "name", Str("N/A")),
     name |-> PyGet(group, "name", PyGet(group, "id", Str("N/A"))),
     product |-> PyGet(group, "product", Str("stream")),
     description |-> PyGet(group, "description", Str("")),
     worker_count |-> PyGet(group, "workerCount", Num(0)),
     configVersion |-> PyGet(group, "configVersion", Str("N/A"))]

GroupRecord(group) ==
    [id |-> PyGet(group, "id", Str("N/A")),
     name |-> PyGet(group, "name", PyGet(group, "id", Str("N/A"))),
     product |-> PyGet(group, "product", Str("stream")),
     description |-> PyGet(group, "description", Str("")),
     worker_count |-> PyGet(group, "workerCount", Num(0)),
     configVersion |-> PyGet(group, "configVersion", Str("N/A"))]

extract_group_info(groups_data) ==
    LET items == Items(groups_data)
    IN IF items.raised THEN Raise
       ELSE IF \E i \in 1..Len(items.v) : NotObj(items.v[i]) THEN Raise
       ELSE Value([i \in 1..Len(items.v) |-> GroupRecord(items.v[i])])

\* info = worker.get('info', {}) and the two nested lookups under it
WorkerInfo(worker) == PyGet(worker, "info", Obj(NoFields))

WorkerRaises(worker) ==
    \/ ~IsObj(worker)
    \/ ~IsObj(WorkerInfo(worker))
    \/ ~IsObj(PyGet(WorkerInfo(worker), "cribl", Obj(NoFields)))
    \/ ~IsObj(PyGet(WorkerInfo(worker), "host", Obj(NoFields)))

\* faulty variant: Online whenever the connected field is present
WorkerRecordPresence(worker) ==
    LET info == WorkerInfo(worker)
    IN [id |-> PyGet(worker, "id", Str("N/A")),
        hostname |-> PyGet(info, "hostname", PyGet(worker, "hostname", Str("N/A"))),
        group |-> PyGet(worker, "group", Str("N/A")),
        status |-> IF "connected" \in DOMAIN worker.o
                   THEN Str("Online") ELSE Str("Offline"),
        version |-> PyGet(PyGet(info, "cribl", Obj(NoFields)), "version", Str("N/A")),
        ip |-> PyGet(PyGet(info, "host", Obj(NoFields)), "ip", Str("N/A"))]

WorkerRecord(worker) ==
    LET info == WorkerInfo(worker)
    IN [id |-> PyGet(worker, "id", Str("N/A")),
        hostname |-> PyGet(info, "hostname", PyGet(worker, "hostname", Str("N/A"))),
        group |-> PyGet(worker, "group", Str("N/A")),
        status |-> IF Truthy(PyGet(worker, "connected", Bool(FALSE)))
                   THEN Str("Online") ELSE Str("Offline"),
        version |-> PyGet(PyGet(info, "cribl", Obj(NoFields)), "version", Str("N/A")),
        ip |-> PyGet(PyGet(info, "host", Obj(NoFields)), "ip", Str("N/A"))]

extract_worker_info(workers_data) ==
    LET items == Items(workers_data)
    IN IF items.raised THEN Raise
       ELSE IF \E i \in 1..Len(items.v) : WorkerRaises(items.v[i]) THEN Raise
       ELSE Value([i \in 1..Len(items.v) |-> WorkerRecord(items.v[i])])

InputRecord(inp) ==
    [id |-> PyGet(inp, "id", Str("N/A")),
     type |-> PyGet(inp, "type", Str("N/A")),
     disabled |-> PyGet(inp, "disabled", Bool(FALSE)),
     port |-> PyGet(inp, "port", PyGet(inp, "host", Str("N/A"))),
     description |-> PyGet(inp, "description", Str(""))]

extract_input_info(inputs_data) ==
    LET items == Items(inputs_data)
    IN IF items.raised THEN Raise
       ELSE IF \E i \in 1..Len(items.v) : NotObj(items.v[i]) THEN Raise
       ELSE Value([i \in 1..Len(items.v) |-> InputRecord(items.v[i])])

OutputRecord(out) ==
    [id |-> PyGet(out, "id", Str("N/A")),
     type |-> PyGet(out, "type", Str("N/A")),
     disabled |-> PyGet(out, "disabled", Bool(FALSE)),
     description |-> PyGet(out, "description", Str("")),
     pipeline |-> PyGet(out, "pipeline", Str(""))]

extract_output_info(outputs_data) ==
    LET items == Items(outputs_data)
    IN IF items.raised THEN Raise
       ELSE IF \E i \in 1..Len(items.v) : NotObj(items.v[i]) THEN Raise
       ELSE Value([i \in 1..Len(items.v) |-> OutputRecord(items.v[i])])

\* the first n elements of a list: s[:n]
Take(s, n) == SubSeq(s, 1, IF Len(s) < n THEN Len(s) ELSE n)

FunctionsShown == 5

\* functions = pipe.get('conf', {}).get('functions', [])
PipeConf(pipe) == PyGet(pipe, "conf", Obj(NoFields))
PipeFunctions(pipe) == PyGet(PipeConf(pipe), "functions", Arr(<<>>))

PipelineRaises(pipe) ==
    \/ ~IsObj(pipe)
    \/ ~IsObj(PipeConf(pipe))
    \/ NotIterable(PipeFunctions(pipe))
    \/ \E i \in 1..Len(Elements(PipeFunctions(pipe))) :
          ~IsObj(Elements(PipeFunctions(pipe))[i])

\* faulty variant: function_count is the length of the capped list
PipelineRecordCountsShown(pipe) ==
    LET functions == Elements(PipeFunctions(pipe))
        function_types == [i \in 1..Len(functions) |->
                              PyGet(functions[i], "id", Str("unknown"))]
    IN [id |-> PyGet(pipe, "id", Str("N/A")),
        description |-> PyGet(PipeConf(pipe), "description", Str("")),
        function_count |-> Num(Len(Take(function_types, FunctionsShown))),
        functions |-> Arr(Take(function_types, FunctionsShown)),
        disabled |-> PyGet(PipeConf(pipe), "disabled", Bool(FALSE))]

PipelineRecord(pipe) ==
    LET functions == Elements(PipeFunctions(pipe))
        function_types == [i \in 1..Len(functions) |->
                              PyGet(functions[i], "id", Str("unknown"))]
    IN [id |-> PyGet(pipe, "id", Str("N/A")),
        description |-> PyGet(PipeConf(pipe), "description", Str("")),
        function_count |-> Num(Len(functions)),
        functions |-> Arr(Take(function_types, FunctionsShown)),
        disabled |-> PyGet(PipeConf(pipe), "disabled", Bool(FALSE))]

extract_pipeline_info(pipelines_data) ==
    LET items == Items(pipelines_data)
    IN IF items.raised THEN Raise
       ELSE IF \E i \in 1..Len(items.v) : PipelineRaises(items.v[i]) THEN Raise
       ELSE Value([i \in 1..Len(items.v) |-> PipelineRecord(items.v[i])])

RouteRecord(r) ==
    [id |-> PyGet(r, "id", PyGet(r, "name", Str("N/A"))),
     name |-> PyGet(r, "name", Str("N/A")),
     filter |-> PyGet(r, "filter", Str("*")),
     pipeline |-> PyGet(r, "pipeline", Str("passthru")),
     output |-> PyGet(r, "output", Str("default")),
     enabled |-> Bool(~Truthy(PyGet(r, "disabled", Bool(FALSE)))),
     final |-> PyGet(r, "final", Bool(FALSE)),
     description |-> PyGet(r, "description", Str(""))]

\* routes_list = route.get('routes', []) of one route set
RoutesList(route) == PyGet(route, "routes", Arr(<<>>))

RouteSetRaises(route) ==
    \/ ~IsObj(route)
    \/ NotIterable(RoutesList(route))
    \/ \E i \in 1..Len(Elements(RoutesList(route))) :
          ~IsObj(Elements(RoutesList(route))[i])

\* faulty variant: only the first entry of a set is kept
RouteSetRecordsFirstOnly(route) ==
    LET routes_list == Elements(RoutesList(route))
    IN [i \in 1..(IF Len(routes_list) > 0 THEN 1 ELSE 0) |-> RouteRecord(routes_list[i])]

RouteSetRecords(route) ==
    LET routes_list == Elements(RoutesList(route))
    IN [i \in 1..Len(routes_list) |-> RouteRecord(routes_list[i])]

\* the nested loops of extract_route_info over the first n route sets
RECURSIVE FlattenRoutes(_, _)
FlattenRoutes(items, n) ==
    IF n = 0 THEN <<>>
    ELSE FlattenRoutes(items, n - 1) \o RouteSetRecords(items[n])

extract_route_info(routes_data) ==
    LET items == Items(routes_data)
    IN IF items.raised THEN Raise
       ELSE IF \E i \in 1..Len(items.v) : RouteSetRaises(items.v[i]) THEN Raise
       ELSE Value(FlattenRoutes(items.v, Len(items.v)))

(***************************************************************************)
(* The remote store: the pages a GET of each URL answers with status 200.  *)
(* Any other URL answers 404.                                              *)
(***************************************************************************)
GroupsUrl == ENDPOINTS.groups
WorkersUrl == ENDPOINTS.workers
NestedUrl(ep, group_id) == Format(ENDPOINTS[ep], PyStr(group_id))

GroupA ==
    Obj([id |-> Str("A"), name |-> Str("Alpha"), product |-> Str("edge"),
         description |-> Str("first"), workerCount |-> Num(2),
         configVersion |-> Str("v1")])
GroupA2 == Obj([id |-> Str("A"), name |-> Str("Alpha again")])
GroupB == Obj([id |-> Str("B")])
GroupNoId == Obj([name |-> Str("Anon")])
GroupDefault ==
    Obj([id |-> Str("default"), name |-> Str("Default Group"),
         workerCount |-> Num(3)])

Worker1 ==
    Obj([id |-> Str("w1"), group |-> Str("A"), connected |-> Bool(TRUE),
         info |-> Obj([hostname |-> Str("h1"),
                       cribl |-> Obj([version |-> Str("4.1")]),
                       host |-> Obj([ip |-> Str("10.0.0.1")])])])
Worker2 == Obj([id |-> Str("w2"), hostname |-> Str("h2")])
WorkerNullInfo == Obj([id |-> Str("w3"), info |-> Null])

ItemsOf(seq) == Obj([items |-> Arr(seq)])
NoItems == Obj(NoFields)

PagesA ==
    (NestedUrl("inputs", Str("A")) :>
        ItemsOf(<<Obj([id |-> Str("in1"), type |-> Str("syslog"), port |-> Num(514)])>>))
    @@ (NestedUrl("outputs", Str("A")) :>
        ItemsOf(<<Obj([id |-> Str("out1"), type |-> Str("s3"), pipeline |-> Str("p1")])>>))
    @@ (NestedUrl("pipelines", Str("A")) :>
        ItemsOf(<<Obj([id |-> Str("p1"),
                       conf |-> Obj([functions |-> Arr(<<Obj([id |-> Str("eval")]),
                                                         Obj([id |-> Str("drop")])>>)])])>>))
    @@ (NestedUrl("routes", Str("A")) :>
        ItemsOf(<<Obj([id |-> Str("default"),
                       routes |-> Arr(<<Obj([id |-> Str("r1"), name |-> Str("main"),
                                             pipeline |-> Str("p1"), output |-> Str("out1")]),
                                        Obj([name |-> Str("r2"), disabled |-> Bool(TRUE)])>>)])>>))

PagesB ==
    (NestedUrl("inputs", Str("B")) :>
        ItemsOf(<<Obj([id |-> Str("in2"), host |-> Str("0.0.0.0")])>>))
    @@ (NestedUrl("outputs", Str("B")) :> NoItems)
    @@ (NestedUrl("pipelines", Str("B")) :> ItemsOf(<<>>))
    @@ (NestedUrl("routes", Str("B")) :>
        ItemsOf(<<Obj([id |-> Str("default")]),
                  Obj([routes |-> Arr(<<Obj([id |-> Str("r9"), final |-> Bool(TRUE)])>>)])>>))

\* group B with a pipeline whose conf is null
PagesBNullConf ==
    (NestedUrl("pipelines", Str("B")) :>
        ItemsOf(<<Obj([id |-> Str("p2"), conf |-> Null])>>))
    @@ PagesB

PagesDefault ==
    (NestedUrl("inputs", Str("default")) :> ItemsOf(<<>>))
    @@ (NestedUrl("outputs", Str("default")) :> ItemsOf(<<>>))
    @@ (NestedUrl("pipelines", Str("default")) :> ItemsOf(<<>>))
    @@ (NestedUrl("routes", Str("default")) :> ItemsOf(<<>>))

Site(groups_body, workers_body, pages) ==
    (GroupsUrl :> groups_body) @@ (WorkersUrl :> workers_body) @@ pages

Stores ==
    {Site(ItemsOf(<<GroupA, GroupB>>), ItemsOf(<<Worker1, Worker2>>), PagesA @@ PagesB),
     Site(ItemsOf(<<GroupA, GroupA2>>), NoItems, PagesA),
     Site(ItemsOf(<<GroupA, GroupNoId>>), ItemsOf(<<Worker2>>), PagesA),
     Site(NoItems, ItemsOf(<<>>), PagesA),
     Site(ItemsOf(<<GroupDefault>>), ItemsOf(<<>>), PagesDefault),
     Site(Arr(<<GroupA>>), ItemsOf(<<>>), PagesA),
     Site(ItemsOf(<<GroupA>>), ItemsOf(<<WorkerNullInfo>>), PagesA),
     Site(ItemsOf(<<GroupB>>), ItemsOf(<<Worker1>>), PagesBNullConf)}

\* what the store answers to a GET of url
Answer(site, url) ==
    IF url \in DOMAIN site
    THEN HttpResponse(200, TRUE, site[url], "")
    ELSE HttpResponse(404, FALSE, Null, "")

\* what the network can put in place of the store's answer
FaultResponses ==
    {HttpResponse(401, FALSE, Null, ""),
     HttpResponse(503, FALSE, Null, ""),
     RaisedResponse({"RequestException", "Timeout"}, "read timed out")}

(***************************************************************************)
(* State.                                                                  *)
(***************************************************************************)
VARIABLES
    pc,             \* where control is in main / run_explorer / fetch_all_data
    caller,         \* who called fetch_all_data: "main" or "run_explorer"
    store,          \* the remote store's pages
    faults,         \* transport faults injected so far
    epoch,          \* fetch cycles started so far
    outstanding,    \* URLs of the HTTP requests in flight
    reqlog,         \* requests of the current cycle, in the order issued
    out,            \* what the current cycle has printed
    groups,         \* fetch_all_data: groups
    workers,        \* fetch_all_data: workers
    all_group_data, \* fetch_all_data: all_group_data
    group_data,     \* fetch_all_data: group_data of the current group
    gi,             \* position of the loop `for group in groups`
    ri,             \* which of the four resources of the group is next
    result,         \* what fetch_all_data returned
    data,           \* the dict main and run_explorer hold (a reference)
    heap,           \* the objects built by completed cycles, by reference
    last_ok,        \* value of the most recent successful cycle's result
    unit_in,        \* input of a single call of _make_request
    unit_out        \* its result

locals == <<groups, workers, all_group_data, group_data, gi, ri>>
session == <<data, heap, last_ok>>
unit == <<unit_in, unit_out>>
vars == <<pc, caller, store, faults, epoch, outstanding, reqlog, out,
          groups, workers, all_group_data, group_data, gi, ri, result,
          data, heap, last_ok, unit_in, unit_out>>

Addr(cycle, name) == [cycle |-> cycle, obj |-> name]
NoRef == Addr(0, "none")
NoResult == [raised |-> FALSE, success |-> FALSE, data |-> Msg(<<>>)]
NoSnapshot == [groups |-> <<>>, workers |-> <<>>, group_data |-> NoFields]

\* faulty variant: a key the dict already has keeps its value
DictSetKeepsFirst(d, k, v) == d @@ (k :> v)

\* d[k] = v on a dict
DictSet(d, k, v) == (k :> v) @@ d

\* faulty variant: keys the dict already has keep their values (setdefault)
DictUpdateKeepsOld(d, other) ==
    [k \in DOMAIN d \cup DOMAIN other |-> IF k \in DOMAIN d THEN d[k] ELSE other[k]]

\* d.update(other)
DictUpdate(d, other) ==
    [k \in DOMAIN d \cup DOMAIN other |-> IF k \in DOMAIN other THEN other[k] ELSE d[k]]

\* faulty variant: outputs fetched before inputs
ResourcesSwapped == <<"outputs", "inputs", "pipelines", "routes">>

\* the order of the four nested fetches of one group
Resources == <<"inputs", "outputs", "pipelines", "routes">>

\* the statement after the i-th nested fetch of a group is the next fetch
NextResource(i) == i + 1

Extract(ep, payload) ==
    CASE ep = "inputs" -> extract_input_info(payload)
      [] ep = "outputs" -> extract_output_info(payload)
      [] ep = "pipelines" -> extract_pipeline_info(payload)
      [] ep = "routes" -> extract_route_info(payload)

\* faulty variant: the `if success else []` guard is missing
NestedListUnguarded(ep, r) == Extract(ep, r.data)

\* group_data[ep] = extract_..._info(payload) if success else []
NestedList(ep, r) == IF r.success THEN Extract(ep, r.data) ELSE Value(<<>>)

\* faulty variant: the early return on a failed global fetch is missing
GlobalFailedIgnored(r) == FALSE

\* `if not success:` after get_groups and get_workers
GlobalFailed(r) == ~r.success

\* faulty variant: the reason is the resource name and the error only
FetchErrorBare(what, error) == Msg(<<what, ": ">> \o error.m)

\* f"Failed to fetch {what}: {error}"
FetchError(what, error) == Msg(<<"Failed to fetch ", what, ": ">> \o error.m)

\* the responses a GET of url can meet
Responses(url) ==
    {Answer(store, url)} \cup (IF faults < MaxFaults THEN FaultResponses ELSE {})

Inject(response) ==
    faults' = IF response \in FaultResponses THEN faults + 1 ELSE faults

ReqEntry(ep, i, url) ==
    [ep |-> ep, gi |-> i, url |-> url, done |-> FALSE, ok |-> FALSE, body |-> Null]

\* the log entry of a request that returned: body is the data member of
\* what _make_request returned, the decoded value or the error message
Complete(log, r) ==
    [log EXCEPT ![Len(log)] =
        [@ EXCEPT !.done = TRUE, !.ok = r.success, !.body = r.data]]

\* requests.get(url, ...): the request leaves and the caller blocks
Send(ep, i, url) ==
    /\ outstanding' = outstanding \cup {url}
    /\ reqlog' = Append(reqlog, ReqEntry(ep, i, url))

\* requests.get returns (or raises) and _make_request maps the outcome
Receive(url, r) ==
    /\ outstanding' = outstanding \ {url}
    /\ reqlog' = Complete(reqlog, r)

\* the four objects of one cycle
Objects(cycle, gs, ws, agd) ==
    (Addr(cycle, "groups") :> gs)
    @@ (Addr(cycle, "workers") :> ws)
    @@ (Addr(cycle, "group_data") :> agd)
    @@ (Addr(cycle, "snapshot") :>
           [groups |-> Addr(cycle, "groups"), workers |-> Addr(cycle, "workers"),
            group_data |-> Addr(cycle, "group_data")])

\* faulty variant: every cycle fills the objects of the first one again
AllocReuses(cycle, gs, ws, agd) ==
    Objects(1, gs, ws, agd) @@ (Addr(cycle, "snapshot") :> Objects(1, gs, ws, agd)[Addr(1, "snapshot")])

\* the objects a successful cycle leaves behind: new ones, by reference
Alloc(cycle, gs, ws, agd) == Objects(cycle, gs, ws, agd)

\* the value a reader of the dict at ref sees
Deep(h, ref) ==
    [groups |-> h[h[ref].groups], workers |-> h[h[ref].workers],
     group_data |-> h[h[ref].group_data]]

\* nothing fetched, nothing held
Idle ==
    /\ caller = "main"
    /\ faults = 0
    /\ epoch = 0
    /\ outstanding = {}
    /\ reqlog = <<>>
    /\ out = <<>>
    /\ groups = <<>>
    /\ workers = <<>>
    /\ all_group_data = NoFields
    /\ group_data = NoFields
    /\ gi = 0
    /\ ri = 0
    /\ result = NoResult
    /\ data = NoRef
    /\ heap = [a \in {} |-> Null]
    /\ last_ok = NoSnapshot
    /\ unit_out = NoResult

Init ==
    /\ pc = "main"
    /\ store \in Stores
    /\ unit_in = Null
    /\ Idle

(***************************************************************************)
(* fetch_all_data.  A frame holds what the program itself holds: where it  *)
(* is, what it has printed, its locals, its return value and the objects   *)
(* it has built.  Each step of the function maps the frame to a new one.   *)
(***************************************************************************)
Frame ==
    [pc |-> pc, out |-> out, groups |-> groups, workers |-> workers,
     all_group_data |-> all_group_data, group_data |-> group_data,
     gi |-> gi, ri |-> ri, result |-> result, heap |-> heap]

\* print(line)
Emit(f, line) == [f EXCEPT !.out = Append(@, line)]

\* an exception leaves fetch_all_data
RaiseOut(f) == [f EXCEPT !.pc = "raised"]

\* print("FAILED"); return False, f"Failed to fetch {what}: {error}"
Fail(f, what, error) ==
    [Emit(f, <<"FAILED">>) EXCEPT !.pc = "returned",
                                  !.result = Returned(FALSE, FetchError(what, error))]

\* return True, {'groups': groups, 'workers': workers, 'group_data': all_group_data}
Finish(f) ==
    [f EXCEPT !.pc = "returned",
              !.heap = Alloc(epoch, f.groups, f.workers, f.all_group_data) @@ f.heap,
              !.result = Returned(TRUE, Addr(epoch, "snapshot"))]

\* top of the loop body for the i-th group
EnterGroup(f, i) ==
    [Emit(f, <<"- Fetching details for group '">> \o PyStr(f.groups[i].name)
                 \o <<"'...">>)
        EXCEPT !.pc = "nested", !.gi = i, !.ri = 1,
               !.group_data = [group |-> f.groups[i]]]

\* `for group in groups`: the i-th iteration, or the statement after the loop
Loop(f, i) == IF i <= Len(f.groups) THEN EnterGroup(f, i) ELSE Finish(f)

\* lines 719 to 724, r being what client.get_groups() gave
GroupsEffect(r) ==
    LET e == extract_group_info(r.data)
    IN IF r.raised THEN RaiseOut(Frame)
       ELSE IF GlobalFailed(r) THEN Fail(Frame, "groups", r.data)
       ELSE IF e.raised THEN RaiseOut(Emit(Frame, <<"OK">>))
       ELSE [Emit(Frame, <<"OK">>) EXCEPT !.pc = "workers", !.groups = e.v]

\* lines 729 to 738, r being what client.get_workers() gave
WorkersEffect(r) ==
    LET e == extract_worker_info(r.data)
    IN IF r.raised THEN RaiseOut(Frame)
       ELSE IF GlobalFailed(r) THEN Fail(Frame, "workers", r.data)
       ELSE IF e.raised THEN RaiseOut(Emit(Frame, <<"OK">>))
       ELSE Loop([Emit(Frame, <<"OK">>) EXCEPT !.workers = e.v,
                                               !.all_group_data = NoFields], 1)

\* the assignment after one nested fetch and what follows it up to the next
\* fetch, r being what client.get_<resource>(group_id) gave
NestedEffect(r) ==
    LET ep == Resources[ri]
        l == NestedList(ep, r)
        gd == DictSet(group_data, ep, l.v)
    IN IF r.raised \/ l.raised THEN RaiseOut(Frame)
       ELSE IF NextResource(ri) <= Len(Resources)
       THEN [Frame EXCEPT !.group_data = gd, !.ri = NextResource(ri), !.pc = "nested"]
       ELSE Loop(Emit([Frame EXCEPT
                           !.group_data = gd,
                           !.all_group_data = DictSet(@, groups[gi].id, gd)],
                       <<"OK">>),
                 gi + 1)

\* the program moves to frame f
Apply(f) ==
    /\ pc' = f.pc
    /\ out' = f.out
    /\ groups' = f.groups
    /\ workers' = f.workers
    /\ all_group_data' = f.all_group_data
    /\ group_data' = f.group_data
    /\ gi' = f.gi
    /\ ri' = f.ri
    /\ result' = f.result
    /\ heap' = f.heap
    /\ last_ok' = IF f.pc = "returned" /\ f.result.success
                  THEN [groups |-> f.groups, workers |-> f.workers,
                        group_data |-> f.all_group_data]
                  ELSE last_ok

\* entry of fetch_all_data, called by c
BeginFetch(c) ==
    /\ epoch < MaxCycles
    /\ epoch' = epoch + 1
    /\ caller' = c
    /\ pc' = "groups"
    /\ reqlog' = <<>>
    /\ out' = <<<<"Fetching data from Cribl API...">>>>
    /\ groups' = <<>>
    /\ workers' = <<>>
    /\ all_group_data' = NoFields
    /\ group_data' = NoFields
    /\ gi' = 0
    /\ ri' = 0
    /\ result' = NoResult
    /\ UNCHANGED <<store, faults, outstanding, session, unit>>

IssueGroups ==
    /\ pc = "groups"
    /\ pc' = "await_groups"
    /\ Send("groups", 0, GroupsUrl)
    /\ out' = Append(out, <<"- Fetching worker groups...">>)
    /\ UNCHANGED <<caller, store, faults, epoch, locals, result, session, unit>>

ReturnGroups ==
    /\ pc = "await_groups"
    /\ \E response \in Responses(GroupsUrl) :
          /\ Inject(response)
          /\ Receive(GroupsUrl, MakeRequest(GroupsUrl, response))
          /\ Apply(GroupsEffect(MakeRequest(GroupsUrl, response)))
    /\ UNCHANGED <<caller, store, epoch, data, unit>>

IssueWorkers ==
    /\ pc = "workers"
    /\ pc' = "await_workers"
    /\ Send("workers", 0, WorkersUrl)
    /\ out' = Append(out, <<"- Fetching workers...">>)
    /\ UNCHANGED <<caller, store, faults, epoch, locals, result, session, unit>>

ReturnWorkers ==
    /\ pc = "await_workers"
    /\ \E response \in Responses(WorkersUrl) :
          /\ Inject(response)
          /\ Receive(WorkersUrl, MakeRequest(WorkersUrl, response))
          /\ Apply(WorkersEffect(MakeRequest(WorkersUrl, response)))
    /\ UNCHANGED <<caller, store, epoch, data, unit>>

\* the URL of the nested fetch the loop is at
CurrentUrl == NestedUrl(Resources[ri], groups[gi].id)

IssueNested ==
    /\ pc = "nested"
    /\ pc' = "await_nested"
    /\ Send(Resources[ri], gi, CurrentUrl)
    /\ UNCHANGED <<caller, store, faults, epoch, out, locals, result, session, unit>>

ReturnNested ==
    /\ pc = "await_nested"
    /\ \E response \in Responses(CurrentUrl) :
          /\ Inject(response)
          /\ Receive(CurrentUrl, MakeRequest(CurrentUrl, response))
          /\ Apply(NestedEffect(MakeRequest(CurrentUrl, response)))
    /\ UNCHANGED <<caller, store, epoch, data, unit>>

(***************************************************************************)
(* main and run_explorer                                                   *)
(***************************************************************************)
\* main: get_credentials(), CriblAPIClient(...), fetch_all_data(client)
GetCredentials ==
    /\ pc = "main"
    /\ BeginFetch("main")

\* main, after fetch_all_data returned
MainAfterFetch ==
    /\ pc = "returned"
    /\ caller = "main"
    /\ IF result.success
       THEN /\ data' = result.data
            /\ out' = Append(out, <<"Data fetched successfully!">>)
            /\ pc' = "menu"
       ELSE /\ data' = data
            /\ out' = Append(out, <<"Error: ">> \o result.data.m)
            /\ pc' = "retry"
    /\ UNCHANGED <<caller, store, faults, epoch, outstanding, reqlog, locals,
                   result, heap, last_ok, unit>>

\* main: except Exception, around the fetch and the explorer loop
MainExcept ==
    /\ pc = "raised"
    /\ pc' = "retry"
    /\ data' = NoRef
    /\ out' = Append(out, <<"Unexpected error">>)
    /\ UNCHANGED <<caller, store, faults, epoch, outstanding, reqlog, locals,
                   result, heap, last_ok, unit>>

\* main: "Press Enter to retry or 'Q' to quit"
Retry ==
    /\ pc = "retry"
    /\ \E answer \in {"", "Q"} : pc' = IF answer = "Q" THEN "exit" ELSE "main"
    /\ UNCHANGED <<caller, store, faults, epoch, outstanding, reqlog, out, locals,
                   result, session, unit>>

\* run_explorer: choices 1 to 5 display the held data; others are invalid
MenuView ==
    /\ pc = "menu"
    /\ \E choice \in {"1", "2", "3", "4", "5", "X"} : UNCHANGED vars

\* run_explorer: choice 6, fetch_all_data(client)
MenuRefresh ==
    /\ pc = "menu"
    /\ BeginFetch("run_explorer")

\* run_explorer: choice 6, after fetch_all_data returned
RefreshAfterFetch ==
    /\ pc = "returned"
    /\ caller = "run_explorer"
    /\ IF result.success
       THEN /\ heap' = [heap EXCEPT ![data] = DictUpdate(heap[data], heap[result.data])]
            /\ out' = Append(out, <<"Data refreshed successfully!">>)
       ELSE /\ heap' = heap
            /\ out' = Append(out, <<"Error: ">> \o result.data.m)
    /\ pc' = "menu"
    /\ UNCHANGED <<caller, store, faults, epoch, outstanding, reqlog, locals,
                   result, data, last_ok, unit>>

\* run_explorer: choice 7, back to main's loop
MenuChangeCredentials ==
    /\ pc = "menu"
    /\ pc' = "main"
    /\ data' = NoRef
    /\ UNCHANGED <<caller, store, faults, epoch, outstanding, reqlog, out, locals,
                   result, heap, last_ok, unit>>

\* run_explorer: choice Q
MenuQuit ==
    /\ pc = "menu"
    /\ pc' = "exit"
    /\ UNCHANGED <<caller, store, faults, epoch, outstanding, reqlog, out, locals,
                   result, session, unit>>

\* the remote configuration changes while the user is at the menu
RemoteChange ==
    /\ pc = "menu"
    /\ store' \in Stores \ {store}
    /\ UNCHANGED <<pc, caller, faults, epoch, outstanding, reqlog, out, locals,
                   result, session, unit>>

Next ==
    \/ GetCredentials
    \/ IssueGroups
    \/ ReturnGroups
    \/ IssueWorkers
    \/ ReturnWorkers
    \/ IssueNested
    \/ ReturnNested
    \/ MainAfterFetch
    \/ MainExcept
    \/ Retry
    \/ MenuView
    \/ MenuRefresh
    \/ RefreshAfterFetch
    \/ MenuChangeCredentials
    \/ MenuQuit
    \/ RemoteChange

Spec == Init /\ [][Next]_vars

(***************************************************************************)
(* One call of _make_request, over the outcomes requests.get can have.     *)
(***************************************************************************)
StatusCodes ==
    {100, 200, 201, 204, 301, 302, 304, 400, 401, 402, 403, 404, 405, 418,
     429, 499, 500, 501, 502, 503, 504, 599}

\* the classes of the exceptions requests.get raises: ConnectionError,
\* ReadTimeout, ConnectTimeout (both a ConnectionError and a Timeout), others
ExceptionKinds ==
    {{"RequestException", "ConnectionError"},
     {"RequestException", "Timeout"},
     {"RequestException", "ConnectionError", "Timeout"},
     {"RequestException"}}

RequestInputs ==
    [endpoint : {GroupsUrl, NestedUrl("inputs", Str("A"))},
     response :
        {HttpResponse(code, TRUE, value, "") :
            code \in StatusCodes, value \in {NoItems, ItemsOf(<<GroupA>>), Arr(<<>>), Null}}
        \cup {HttpResponse(code, FALSE, Null, "Expecting value") : code \in StatusCodes}
        \cup {RaisedResponse(classes, "boom") : classes \in ExceptionKinds}]

InitRequest ==
    /\ pc = "call"
    /\ store = Site(NoItems, NoItems, PagesA)
    /\ unit_in \in RequestInputs
    /\ Idle

CallMakeRequest ==
    /\ pc = "call"
    /\ pc' = "called"
    /\ unit_out' = MakeRequest(unit_in.endpoint, unit_in.response)
    /\ UNCHANGED <<caller, store, faults, epoch, outstanding, reqlog, out, locals,
                   result, session, unit_in>>

NextRequest == CallMakeRequest

SpecRequest == InitRequest /\ [][NextRequest]_vars

(***************************************************************************)
(* One call of an extractor, over raw payloads a response body can decode  *)
(* to.                                                                     *)
(***************************************************************************)
MaxItems == 2
MaxSets == 3
MaxFunctions == 7
MaxRoutes == 3

SeqsUpTo(S, n) == UNION {[1..m -> S] : m \in 0..n}

\* values of a worker's `connected` field
ConnectedValues ==
    {Bool(TRUE), Bool(FALSE), Null, Num(0), Num(1), Str(""), Str("yes"),
     Arr(<<>>), Arr(<<Num(0)>>), Obj(NoFields)}

WorkerItems ==
    {Obj([id |-> Str("w")]), Worker1, Worker2, WorkerNullInfo,
     Obj([id |-> Str("w4"), info |-> Obj([hostname |-> Str("h4")])]),
     Obj([id |-> Str("w5"), info |-> Obj([cribl |-> Null])]),
     Obj([id |-> Str("w6"), info |-> Obj([host |-> Str("10.0.0.6")])])}
    \cup {Obj([id |-> Str("w"), connected |-> c]) : c \in ConnectedValues}

\* the i-th function of a pipeline; the third has no id
FunctionAt(i) ==
    IF i = 3 THEN Obj([filter |-> Str("true")]) ELSE Obj([id |-> Str(Digits[i + 1])])

PipelineItems ==
    {Obj([id |-> Str("p"),
          conf |-> Obj([functions |-> Arr([i \in 1..n |-> FunctionAt(i)])])]) :
        n \in 0..MaxFunctions}
    \cup {Obj([id |-> Str("p")]),
          Obj([id |-> Str("p"), conf |-> Null]),
          Obj([id |-> Str("p"), conf |-> Obj([description |-> Str("d")])]),
          Obj([id |-> Str("p"), conf |-> Obj([functions |-> Null])])}

\* the j-th entry of the route set tag; the second is disabled and has no id
RouteEntry(tag, j) ==
    IF j = 2
    THEN Obj([name |-> Str(tag \o Digits[j + 1]), disabled |-> Bool(TRUE)])
    ELSE Obj([id |-> Str(tag \o Digits[j + 1]), pipeline |-> Str("main")])

RouteSets ==
    {Obj([id |-> Str(tag), routes |-> Arr([j \in 1..k |-> RouteEntry(tag, j)])]) :
        tag \in {"a", "b"}, k \in 0..MaxRoutes}
    \cup {Obj([id |-> Str("c")]), Obj([id |-> Str("d"), routes |-> Null])}

PlainItems == {GroupA, GroupNoId, Str("x")}

Payloads ==
    {NoItems, Obj([count |-> Num(0)]), Obj([items |-> Null]),
     Obj([error |-> Str("x"), count |-> Num(1)])}
    \cup {ItemsOf(seq) :
             seq \in SeqsUpTo(WorkerItems \cup PipelineItems \cup PlainItems, MaxItems)}
    \cup {ItemsOf(seq) : seq \in SeqsUpTo(RouteSets, MaxSets)}

Extractors == {"group", "worker", "input", "output", "pipeline", "route"}

InitExtract ==
    /\ pc = "extract"
    /\ store = Site(NoItems, NoItems, PagesA)
    /\ unit_in \in [extractor : Extractors, payload : Payloads]
    /\ Idle

\* a call of the extractor `name` returning or raising
CallExtractor(name, outcome) ==
    /\ pc = "extract"
    /\ unit_in.extractor = name
    /\ pc' = "extracted"
    /\ unit_out' = outcome
    /\ UNCHANGED <<caller, store, faults, epoch, outstanding, reqlog, out, locals,
                   result, session, unit_in>>

ExtractGroup == CallExtractor("group", extract_group_info(unit_in.payload))
ExtractWorker == CallExtractor("worker", extract_worker_info(unit_in.payload))
ExtractInput == CallExtractor("input", extract_input_info(unit_in.payload))
ExtractOutput == CallExtractor("output", extract_output_info(unit_in.payload))
ExtractPipeline == CallExtractor("pipeline", extract_pipeline_info(unit_in.payload))
ExtractRoute == CallExtractor("route", extract_route_info(unit_in.payload))

NextExtract ==
    \/ ExtractGroup
    \/ ExtractWorker
    \/ ExtractInput
    \/ ExtractOutput
    \/ ExtractPipeline
    \/ ExtractRoute

SpecExtract == InitExtract /\ [][NextExtract]_vars

(***************************************************************************)
(* Properties.                                                             *)
(***************************************************************************)
NestedNames == {"inputs", "outputs", "pipelines", "routes"}

\* positions in reqlog of the per-group requests
NestedEntries == {n \in 1..Len(reqlog) : reqlog[n].ep \in NestedNames}

\* the groups and the workers request of the current cycle both succeeded
GlobalsSucceeded ==
    /\ Len(reqlog) >= 2
    /\ reqlog[1].done /\ reqlog[1].ok
    /\ reqlog[2].done /\ reqlog[2].ok

\* fetch_all_data has just returned (True, snapshot)
ReturnedSuccess == pc = "returned" /\ result.success

\* the snapshot fetch_all_data returned
Snapshot == Deep(heap, result.data)

\* the list the snapshot holds under the id of the group request n was for
HeldList(n) == Snapshot.group_data[groups[reqlog[n].gi].id][reqlog[n].ep]

\* the list request n alone accounts for
OwnList(n) ==
    IF reqlog[n].ok THEN Extract(reqlog[n].ep, reqlog[n].body).v ELSE <<>>

\* no later group of the list has the id of the i-th
LastWithId(i) == \A j \in (i + 1)..Len(groups) : groups[j].id # groups[i].id

\* whether the extractor of request n raises on the body it received
ExtractorRaises(n) ==
    CASE reqlog[n].ep = "groups" -> extract_group_info(reqlog[n].body).raised
      [] reqlog[n].ep = "workers" -> extract_worker_info(reqlog[n].body).raised
      [] OTHER -> Extract(reqlog[n].ep, reqlog[n].body).raised

\* C1 as stated: after a cycle whose global requests succeeded, the cycle
\* returned success and every per-group request, failed or not, accounts for
\* the list the snapshot holds for its group and resource: empty when it
\* failed, the extraction of its own response otherwise.
C1_AsStated ==
    (pc = "returned" /\ GlobalsSucceeded) =>
        /\ result.success
        /\ \A n \in NestedEntries : HeldList(n) = OwnList(n)

\* C1 amended: the same for every group whose id no later group repeats;
\* a failed per-group request never makes the cycle return failure, and never
\* makes it raise (only a successful response its extractor rejects does).
C1_PartialFailure ==
    /\ (pc = "returned" /\ GlobalsSucceeded) =>
          /\ result.success
          /\ \A n \in NestedEntries :
                LastWithId(reqlog[n].gi) => HeldList(n) = OwnList(n)
    /\ pc = "raised" =>
          \E n \in 1..Len(reqlog) :
             reqlog[n].done /\ reqlog[n].ok /\ ExtractorRaises(n)

\* C1 witness: two groups, the inputs request of the second failed and nothing
\* else; the cycle returned success with the first group's inputs populated.
C1_Witness ==
    /\ ReturnedSuccess
    /\ Len(groups) = 2
    /\ groups[1].id # groups[2].id
    /\ \A n \in NestedEntries :
          reqlog[n].ok <=> ~(reqlog[n].gi = 2 /\ reqlog[n].ep = "inputs")
    /\ Snapshot.group_data[groups[1].id].inputs # <<>>
    /\ Snapshot.group_data[groups[2].id].inputs = <<>>
    /\ Snapshot.group_data[groups[2].id].routes # <<>>

\* C2: once the groups request has failed the cycle has returned failure
\* with that single request issued; once the workers request has failed it
\* has returned failure with those two requests issued; in both cases
\* group_data holds nothing and no snapshot exists for the cycle.
C2_GlobalFailureFatal ==
    \A k \in {1, 2} :
        (Len(reqlog) >= k /\ reqlog[k].done /\ ~reqlog[k].ok) =>
            /\ Len(reqlog) = k
            /\ outstanding = {}
            /\ pc \in {"returned", "retry", "menu", "main", "exit"}
            /\ ~result.raised /\ ~result.success /\ result # NoResult
            /\ all_group_data = NoFields
            /\ Addr(epoch, "snapshot") \notin DOMAIN heap

\* C2 witness: the workers request failed after a groups response with groups.
C2_Witness ==
    /\ pc = "returned"
    /\ Len(reqlog) = 2
    /\ reqlog[2].done /\ ~reqlog[2].ok
    /\ Len(groups) > 0

\* the requests issued for the resource ep of the i-th group of the list
RequestsFor(i, ep) ==
    {n \in 1..Len(reqlog) : reqlog[n].gi = i /\ reqlog[n].ep = ep}

\* C3 as stated: when a cycle whose global requests succeeded has ended,
\* exactly one request was issued for each group of the list and each of the
\* four resources.
C3_AsStated ==
    (pc \in {"returned", "raised"} /\ GlobalsSucceeded
        /\ ~extract_group_info(reqlog[1].body).raised) =>
        \A i \in 1..Len(extract_group_info(reqlog[1].body).v) :
            \A ep \in NestedNames : Cardinality(RequestsFor(i, ep)) = 1

\* id of the i-th item of a groups response
ItemId(body, i) == PyGet(body.o.items.a[i], "id", Str("N/A"))

\* the n-th request of a cycle, in the fixed order
Expected(n) ==
    IF n = 1 THEN [ep |-> "groups", gi |-> 0, url |-> ENDPOINTS.groups]
    ELSE IF n = 2 THEN [ep |-> "workers", gi |-> 0, url |-> ENDPOINTS.workers]
    ELSE LET i == ((n - 3) \div 4) + 1
             ep == <<"inputs", "outputs", "pipelines", "routes">>[((n - 3) % 4) + 1]
         IN [ep |-> ep, gi |-> i,
             url |-> Format(ENDPOINTS[ep], PyStr(ItemId(reqlog[1].body, i)))]

\* C4: at most one request is outstanding; the requests issued so far are
\* the first ones of the fixed order (groups, workers, then per group of the
\* groups response, in its order, inputs, outputs, pipelines, routes); every
\* request but the last has completed, and the last is the outstanding one
\* exactly while it has not.
C4_Sequential ==
    /\ Cardinality(outstanding) <= 1
    /\ \A n \in 1..Len(reqlog) :
          /\ reqlog[n].ep = Expected(n).ep
          /\ reqlog[n].gi = Expected(n).gi
          /\ reqlog[n].url = Expected(n).url
          /\ n < Len(reqlog) => reqlog[n].done
    /\ outstanding =
          IF Len(reqlog) > 0 /\ ~reqlog[Len(reqlog)].done
          THEN {reqlog[Len(reqlog)].url} ELSE {}

\* C4 witness: a cycle over two groups, its last request outstanding.
C4_Witness ==
    /\ Len(reqlog) = 10
    /\ outstanding = {reqlog[10].url}
    /\ reqlog[10].ep = "routes"

\* the frames a failed request and a successful one lead to at the nested
\* fetch the loop is waiting for
C5_Failed(response) == ~MakeRequest(CurrentUrl, response).success
C5_SucceededEmpty(response) ==
    /\ MakeRequest(CurrentUrl, response).success
    /\ NestedList(Resources[ri], MakeRequest(CurrentUrl, response)) = Value(<<>>)

\* C5 as stated: whenever a per-group request can either fail or succeed
\* with zero items, what the program holds afterwards (position, printed
\* lines, locals, result, objects) differs between the two.
C5_AsStated ==
    pc = "await_nested" =>
        \A failed, empty \in Responses(CurrentUrl) :
            (C5_Failed(failed) /\ C5_SucceededEmpty(empty)) =>
                NestedEffect(MakeRequest(CurrentUrl, failed))
                    # NestedEffect(MakeRequest(CurrentUrl, empty))

\* C6: whenever the explorer is at its menu, the snapshot it holds has the
\* groups, workers and group_data of the most recent cycle that returned
\* success, whole: nothing of an earlier snapshot, and unchanged by a failed
\* refresh.
C6_HeldIsLastSuccess == pc = "menu" => Deep(heap, data) = last_ok

\* C6 witness: after a successful refresh, the held snapshot lacks a group
\* that the snapshot of the first cycle had.
C6_Witness ==
    /\ pc = "menu"
    /\ caller = "run_explorer"
    /\ result.success
    /\ Addr(1, "group_data") \in DOMAIN heap
    /\ \E k \in DOMAIN heap[Addr(1, "group_data")] :
          k \notin DOMAIN Deep(heap, data).group_data

\* C7 as stated: through a refresh, a reader of the dict the session held
\* before it sees the same groups, workers and group_data after it.
C7_AsStated ==
    [][(pc = "returned" /\ caller = "run_explorer")
          => Deep(heap', data) = Deep(heap, data)]_vars

\* C7 amended: no object is ever removed, and the only object ever changed
\* after its creation is the dict the session holds, by a successful refresh,
\* which leaves the session holding that same dict with its three keys bound
\* to the objects the cycle built.
C7_UpdatedInPlace ==
    [][/\ \A a \in DOMAIN heap :
             /\ a \in DOMAIN heap'
             /\ heap'[a] # heap[a] =>
                   /\ a = data
                   /\ pc = "returned" /\ caller = "run_explorer" /\ result.success
                   /\ heap'[a] = heap[result.data]
       /\ (pc = "returned" /\ caller = "run_explorer" /\ result.success) =>
             /\ data' = data
             /\ heap'[data] = heap[result.data]]_vars

\* C7 witness: after a successful refresh the session holds the dict of the
\* first cycle, now bound to the second cycle's objects, and the first
\* cycle's groups list still exists with other contents.
C7_Witness ==
    /\ pc = "menu"
    /\ caller = "run_explorer"
    /\ result.success
    /\ data = Addr(1, "snapshot")
    /\ result.data = Addr(2, "snapshot")
    /\ heap[data].groups = Addr(2, "groups")
    /\ heap[Addr(1, "groups")] # heap[Addr(2, "groups")]

\* the items of a groups response
ResponseItems(body) == IF "items" \in DOMAIN body.o THEN body.o.items.a ELSE <<>>

\* whether the ids of a list of records or items are pairwise distinct
Distinct(ids) == \A i, j \in 1..Len(ids) : i # j => ids[i] # ids[j]

\* C8 as stated: the groups of a returned snapshot have pairwise distinct ids.
C8_AsStated ==
    ReturnedSuccess =>
        Distinct([i \in 1..Len(Snapshot.groups) |-> Snapshot.groups[i].id])

\* C8 amended: the groups of a returned snapshot carry, one per item and in
\* order, the ids of the items of the groups response ("N/A" for an item
\* without one), so they are pairwise distinct exactly when those are.
C8_IdsFollowResponse ==
    ReturnedSuccess =>
        LET items == ResponseItems(reqlog[1].body)
            ids == [i \in 1..Len(items) |->
                       IF "id" \in DOMAIN items[i].o THEN items[i].o.id ELSE Str("N/A")]
        IN /\ [i \in 1..Len(Snapshot.groups) |-> Snapshot.groups[i].id] = ids
           /\ Distinct(ids) <=>
                 Distinct([i \in 1..Len(Snapshot.groups) |-> Snapshot.groups[i].id])

\* C8 witness: a returned snapshot with two groups of the same id.
C8_Witness ==
    /\ ReturnedSuccess
    /\ Len(Snapshot.groups) = 2
    /\ Snapshot.groups[1].id = Snapshot.groups[2].id
    /\ Snapshot.groups[1] # Snapshot.groups[2]

\* C9 as stated: a cycle never ends with an exception, and when it has
\* returned it returned either success with a snapshot of groups, workers
\* and group_data or failure with a reason.
C9_AsStated ==
    /\ pc # "raised"
    /\ pc = "returned" =>
          \/ /\ result.success
             /\ DOMAIN heap[result.data] = {"groups", "workers", "group_data"}
          \/ /\ ~result.success
             /\ result.data.t = "msg"

\* the kind of each outcome of requests.get, by the names of the specification
C10_Kind(response) ==
    CASE response.exc = {} /\ response.status_code = 200 /\ response.decodable -> "Success"
      [] response.exc = {} /\ response.status_code = 200 /\ ~response.decodable -> "InvalidBody"
      [] response.exc = {} /\ response.status_code = 401 -> "Unauthorized"
      [] response.exc = {} /\ response.status_code = 403 -> "Forbidden"
      [] response.exc = {} /\ response.status_code = 404 -> "NotFound"
      [] response.exc = {} /\ response.status_code >= 500 -> "ServerError"
      [] response.exc = {} /\ response.status_code < 500
            /\ response.status_code \notin {200, 401, 403, 404} -> "UnexpectedStatus"
      [] response.exc # {} /\ "ConnectionError" \in response.exc
            /\ "Timeout" \notin response.exc -> "ConnectionFailed"
      [] response.exc # {} /\ "Timeout" \in response.exc
            /\ "ConnectionError" \notin response.exc -> "TimedOut"
      [] response.exc # {} /\ "Timeout" \in response.exc
            /\ "ConnectionError" \in response.exc -> "ConnectTimeout"
      [] OTHER -> "OtherTransportError"

C10_ConnectionFailed ==
    Returned(FALSE, Msg(<<"Connection failed. Check your URL and network connection.">>))
C10_TimedOut ==
    Returned(FALSE, Msg(<<"Request timed out after ", "3", "0", " seconds.">>))

\* the result the specification gives each kind of outcome
C10_Result(endpoint, response) ==
    CASE C10_Kind(response) = "Success" -> Returned(TRUE, response.value)
      [] C10_Kind(response) = "InvalidBody" ->
            Returned(FALSE, Msg(<<"Invalid JSON response: ", response.text>>))
      [] C10_Kind(response) = "Unauthorized" ->
            Returned(FALSE, Msg(<<"Authentication failed. Please check your Bearer token.">>))
      [] C10_Kind(response) = "Forbidden" ->
            Returned(FALSE,
                Msg(<<"Access forbidden. Your token may lack required permissions.">>))
      [] C10_Kind(response) = "NotFound" ->
            Returned(FALSE, Msg(<<"Endpoint not found: ">> \o endpoint
                                   \o <<". Check your base URL.">>))
      [] C10_Kind(response) = "ServerError" ->
            Returned(FALSE, Msg(<<"Server error (">> \o DecStr(response.status_code)
                                   \o <<"). Try again later.">>))
      [] C10_Kind(response) = "UnexpectedStatus" ->
            Returned(FALSE, Msg(<<"Unexpected status code: ">>
                                   \o DecStr(response.status_code)))
      [] C10_Kind(response) = "ConnectionFailed" -> C10_ConnectionFailed
      [] C10_Kind(response) = "TimedOut" -> C10_TimedOut
      [] C10_Kind(response) = "OtherTransportError" ->
            Returned(FALSE, Msg(<<"Request error: ", response.text>>))

\* C10: a call of _make_request returns (no exception escapes) the result of
\* its outcome's kind; a connect timeout, being both a connection error and a
\* timeout, gets one of those two results; and outcomes of different kinds get
\* different results.
C10_OutcomeMapping ==
    pc = "called" =>
        /\ ~unit_out.raised
        /\ IF C10_Kind(unit_in.response) = "ConnectTimeout"
           THEN unit_out \in {C10_ConnectionFailed, C10_TimedOut}
           ELSE unit_out = C10_Result(unit_in.endpoint, unit_in.response)
        /\ \A other \in RequestInputs :
              (/\ C10_Kind(other.response) # C10_Kind(unit_in.response)
               /\ "ConnectTimeout" \notin {C10_Kind(other.response),
                                           C10_Kind(unit_in.response)})
                 => MakeRequest(other.endpoint, other.response) # unit_out

\* C10 witness: a 302 answered with the status code in the message.
C10_Witness ==
    /\ pc = "called"
    /\ unit_in.response.status_code = 302
    /\ unit_in.response.exc = {}
    /\ unit_out = Returned(FALSE, Msg(<<"Unexpected status code: ", "3", "0", "2">>))

\* the string a message spells
RECURSIVE Text(_)
Text(m) == IF m = <<>> THEN "" ELSE Head(m) \o Text(Tail(m))

\* a cycle that returned failure after its k-th request failed
FailedAt(k) ==
    /\ pc = "returned"
    /\ ~result.success
    /\ Len(reqlog) = k
    /\ reqlog[k].done /\ ~reqlog[k].ok

\* C11 as stated: the reason of a cycle whose groups request failed is
\* "groups: " followed by the error of that request, and "workers: " followed
\* by the error when the workers request failed.
C11_AsStated ==
    /\ FailedAt(1) => Text(result.data.m) = "groups: " \o Text(reqlog[1].body.m)
    /\ FailedAt(2) => Text(result.data.m) = "workers: " \o Text(reqlog[2].body.m)

\* C11 amended: the reason is "Failed to fetch groups: " followed by the
\* error message _make_request gave for the groups request, and
\* "Failed to fetch workers: " followed by the error message of the workers
\* request; a cycle returns failure in no other case.
C11_FailureReason ==
    /\ FailedAt(1) =>
          Text(result.data.m) = "Failed to fetch groups: " \o Text(reqlog[1].body.m)
    /\ FailedAt(2) =>
          Text(result.data.m) = "Failed to fetch workers: " \o Text(reqlog[2].body.m)
    /\ (pc = "returned" /\ ~result.success) => (FailedAt(1) \/ FailedAt(2))

\* C11 witness: the workers request met a 503 and the cycle returned the
\* reason built from it.
C11_Witness ==
    /\ FailedAt(2)
    /\ Text(reqlog[2].body.m) = "Server error (503). Try again later."
    /\ Text(result.data.m)
          = "Failed to fetch workers: Server error (503). Try again later."

\* an extractor was called on a payload and returned or raised
Extracted(name) == pc = "extracted" /\ unit_in.extractor = name

\* C12: called on a payload object without an `items` field, each of the six
\* extractors returns the empty list and does not raise.
C12_NoItemsGivesEmpty ==
    (/\ pc = "extracted"
     /\ unit_in.payload.t = "obj"
     /\ "items" \notin DOMAIN unit_in.payload.o)
        => (~unit_out.raised /\ unit_out.v = <<>>)

\* C12 witness: the route extractor returned [] for an object that has
\* other fields but no items.
C12_Witness ==
    /\ Extracted("route")
    /\ unit_in.payload = Obj([error |-> Str("x"), count |-> Num(1)])
    /\ unit_out = Value(<<>>)

\* the items of a payload that has a list under `items`
PayloadItems == unit_in.payload.o.items.a

\* the payload is an object whose `items` is a list of objects
ItemsAreObjects ==
    /\ unit_in.payload.t = "obj"
    /\ "items" \in DOMAIN unit_in.payload.o
    /\ unit_in.payload.o.items.t = "arr"
    /\ \A i \in 1..Len(PayloadItems) : PayloadItems[i].t = "obj"

\* the field f of item is absent or is not an object
NoSubObject(item, f) == f \notin DOMAIN item.o \/ item.o[f].t # "obj"

\* C13 as stated: on a payload whose items are objects no extractor raises,
\* whatever their optional fields hold; it returns one record per item (the
\* route extractor one per entry), and a
\* worker whose `info` is absent or not an object gets version and ip "N/A",
\* a pipeline whose `conf` is absent or not an object function_count 0.
C13_AsStated ==
    (pc = "extracted" /\ ItemsAreObjects) =>
        /\ ~unit_out.raised
        /\ unit_in.extractor # "route" => Len(unit_out.v) = Len(PayloadItems)
        /\ \A i \in 1..Len(PayloadItems) :
              /\ (unit_in.extractor = "worker" /\ NoSubObject(PayloadItems[i], "info"))
                    => (unit_out.v[i].version = Str("N/A") /\ unit_out.v[i].ip = Str("N/A"))
              /\ (unit_in.extractor = "pipeline" /\ NoSubObject(PayloadItems[i], "conf"))
                    => unit_out.v[i].function_count = Num(0)

\* the route entries of a set
EntriesOf(set) == IF "routes" \in DOMAIN set.o THEN set.o.routes.a ELSE <<>>

\* the payload is a list of route sets, each without `routes` or with a list
\* of objects under it
WellFormedRouteSets ==
    /\ ItemsAreObjects
    /\ \A i \in 1..Len(PayloadItems) :
          "routes" \in DOMAIN PayloadItems[i].o =>
              /\ PayloadItems[i].o.routes.t = "arr"
              /\ \A j \in 1..Len(PayloadItems[i].o.routes.a) :
                    PayloadItems[i].o.routes.a[j].t = "obj"

\* k_1 + ... + k_n, the number of entries of the first n sets
RECURSIVE EntriesBefore(_, _)
EntriesBefore(sets, n) ==
    IF n = 0 THEN 0 ELSE EntriesBefore(sets, n - 1) + Len(EntriesOf(sets[n]))

\* the id an entry is known by: its id, else its name, else "N/A"
EntryId(entry) ==
    IF "id" \in DOMAIN entry.o THEN entry.o.id
    ELSE IF "name" \in DOMAIN entry.o THEN entry.o.name ELSE Str("N/A")

\* C14: for a routes payload of N route sets with k_1..k_N entries,
\* extract_route_info returns k_1+...+k_N records; the record at position
\* k_1+...+k_(i-1)+j is the one of the j-th entry of the i-th set; a set
\* without `routes` contributes none.
C14_RoutesFlattened ==
    (Extracted("route") /\ WellFormedRouteSets) =>
        /\ ~unit_out.raised
        /\ Len(unit_out.v) = EntriesBefore(PayloadItems, Len(PayloadItems))
        /\ \A i \in 1..Len(PayloadItems) :
              \A j \in 1..Len(EntriesOf(PayloadItems[i])) :
                 LET record == unit_out.v[EntriesBefore(PayloadItems, i - 1) + j]
                     entry == EntriesOf(PayloadItems[i])[j]
                 IN /\ record.id = EntryId(entry)
                    /\ record.enabled.b = ("disabled" \notin DOMAIN entry.o)

\* C14 witness: three sets with 2, 0 (no routes field) and 3 entries gave five
\* records, the third being the first entry of the last set.
C14_Witness ==
    /\ Extracted("route")
    /\ WellFormedRouteSets
    /\ Len(PayloadItems) = 3
    /\ Len(EntriesOf(PayloadItems[1])) = 2
    /\ "routes" \notin DOMAIN PayloadItems[2].o
    /\ Len(EntriesOf(PayloadItems[3])) = 3
    /\ Len(unit_out.v) = 5
    /\ unit_out.v[3].id = Str("b1")
    /\ unit_out.v[2].id = Str("a2")

\* the nested function list of a pipeline item, when it has one
HasFunctionList(item) ==
    /\ "conf" \in DOMAIN item.o
    /\ item.o.conf.t = "obj"
    /\ "functions" \in DOMAIN item.o.conf.o
    /\ item.o.conf.o.functions.t = "arr"

FunctionId(fn) == IF "id" \in DOMAIN fn.o THEN fn.o.id ELSE Str("unknown")

\* C15: for a pipeline item with a function list of length n,
\* function_count is n and functions holds the ids of the first min(n, 5)
\* functions in order, so functions is never longer than 5 nor than
\* function_count.
C15_FunctionCount ==
    (Extracted("pipeline") /\ ItemsAreObjects /\ ~unit_out.raised) =>
        \A i \in 1..Len(PayloadItems) :
            HasFunctionList(PayloadItems[i]) =>
                LET fns == PayloadItems[i].o.conf.o.functions.a
                    n == Len(fns)
                    shown == unit_out.v[i].functions.a
                IN /\ unit_out.v[i].function_count = Num(n)
                   /\ Len(shown) = (IF n < 5 THEN n ELSE 5)
                   /\ \A j \in 1..Len(shown) : shown[j] = FunctionId(fns[j])
                   /\ Len(shown) <= 5
                   /\ Len(shown) <= unit_out.v[i].function_count.n

\* C15 witness: a pipeline of seven functions reported as 7, with five shown.
C15_Witness ==
    /\ Extracted("pipeline")
    /\ ItemsAreObjects
    /\ Len(PayloadItems) = 1
    /\ HasFunctionList(PayloadItems[1])
    /\ Len(PayloadItems[1].o.conf.o.functions.a) = 7
    /\ ~unit_out.raised
    /\ unit_out.v[1].function_count = Num(7)
    /\ Len(unit_out.v[1].functions.a) = 5
    /\ unit_out.v[1].functions.a[3] = Str("unknown")

\* the values Python takes for false
Falsy == {Bool(FALSE), Null, Num(0), Str(""), Arr(<<>>), Obj(NoFields)}

\* C16: a worker's status is "Online" when its `connected` field is present
\* and truthy and "Offline" otherwise, never anything else.
C16_StatusOnline ==
    (Extracted("worker") /\ ItemsAreObjects /\ ~unit_out.raised) =>
        \A i \in 1..Len(PayloadItems) :
            /\ unit_out.v[i].status \in {Str("Online"), Str("Offline")}
            /\ unit_out.v[i].status = Str("Online") <=>
                  /\ "connected" \in DOMAIN PayloadItems[i].o
                  /\ PayloadItems[i].o.connected \notin Falsy

\* C16 witness: a worker connected "yes" is Online and one connected 0 is
\* Offline.
C16_Witness ==
    /\ Extracted("worker")
    /\ ItemsAreObjects
    /\ ~unit_out.raised
    /\ Len(PayloadItems) = 2
    /\ PayloadItems[1].o = [id |-> Str("w"), connected |-> Str("yes")]
    /\ PayloadItems[2].o = [id |-> Str("w"), connected |-> Num(0)]
    /\ unit_out.v[1].status = Str("Online")
    /\ unit_out.v[2].status = Str("Offline")

\* the ids of the groups of the returned snapshot
SnapshotIds == {Snapshot.groups[i].id : i \in 1..Len(Snapshot.groups)}

\* the requests of the cycle made for the i-th group of the list
RequestsOfGroup(i) == {n \in NestedEntries : reqlog[n].gi = i}

\* C17: in a returned snapshot the keys of group_data are the ids of the
\* groups; each entry has exactly the fields group, inputs, outputs,
\* pipelines and routes, and its group has the key as id; the entry under an
\* id is the one of the last group of the list with that id: its group is
\* that record and its four lists are those of that record's four requests.
C17_GroupDataKeys ==
    ReturnedSuccess =>
        /\ DOMAIN Snapshot.group_data = SnapshotIds
        /\ \A k \in DOMAIN Snapshot.group_data :
              /\ DOMAIN Snapshot.group_data[k]
                    = {"group", "inputs", "outputs", "pipelines", "routes"}
              /\ Snapshot.group_data[k].group.id = k
        /\ \A i \in 1..Len(Snapshot.groups) :
              LastWithId(i) =>
                 /\ Snapshot.group_data[Snapshot.groups[i].id].group = Snapshot.groups[i]
                 /\ {reqlog[n].ep : n \in RequestsOfGroup(i)} = NestedNames
                 /\ \A n \in RequestsOfGroup(i) :
                       Snapshot.group_data[Snapshot.groups[i].id][reqlog[n].ep]
                          = OwnList(n)

\* C17 witness: two groups share an id; the inputs request of the first
\* succeeded with an item and that of the second failed, and the one entry
\* holds the second record and its empty inputs.
C17_Witness ==
    /\ ReturnedSuccess
    /\ Len(Snapshot.groups) = 2
    /\ Snapshot.groups[1].id = Snapshot.groups[2].id
    /\ Snapshot.groups[1] # Snapshot.groups[2]
    /\ Cardinality(DOMAIN Snapshot.group_data) = 1
    /\ \E n1 \in RequestsOfGroup(1), n2 \in RequestsOfGroup(2) :
          /\ reqlog[n1].ep = "inputs" /\ reqlog[n2].ep = "inputs"
          /\ reqlog[n1].ok /\ OwnList(n1) # <<>>
          /\ ~reqlog[n2].ok
    /\ Snapshot.group_data[Snapshot.groups[2].id].group = Snapshot.groups[2]
    /\ Snapshot.group_data[Snapshot.groups[2].id].inputs = <<>>

====
